---------------------------- MODULE Spec2Model ----------------------------
(***************************************************************************)
(* A model of the execution core of UniShell (BigShell): runner.c          *)
(* (run_command_list and the two redirection engines), wait.c (the         *)
(* foreground and background reap protocols) and signal.c.                 *)
(*                                                                         *)
(* The specifications share the definitions of this module:                *)
(*   Spec       the shell running one command list, its children, the job  *)
(*              table and the two wait protocols;                          *)
(*   RedirSpec  one command's redirection sequence applied by              *)
(*              do_builtin_io_redirects (virtual) and do_io_redirects      *)
(*              (real), step by step, on a descriptor table;               *)
(*   FairSpec   Spec with the shell's steps weakly fair;                   *)
(*   SigSpec    the signal dispositions of the shell and of an             *)
(*              external-command child, from startup to the exec.          *)
(***************************************************************************)
EXTENDS Integers, Sequences, FiniteSets, TLC

VARIABLES
    sg,     \* SigSpec: the signal dispositions of the shell and a child
    rd,     \* RedirSpec: the command whose redirections are being applied
    cl,     \* Spec: the command list given to run_command_list
    sh,     \* Spec: the shell process (position, locals, descriptor table)
    procs,  \* Spec: the child processes, by pid
    jobs,   \* Spec: the job table
    out,    \* Spec: the notices written to the error stream
    tty,    \* Spec: the foreground process group of the terminal
    wt,     \* Spec: the locals of the running wait protocol
    hist    \* Spec: how each command of the list was run (history)

vars == <<sg, rd, cl, sh, procs, jobs, out, tty, wt, hist>>
shvars == <<sg, cl, sh, procs, jobs, out, tty, wt, hist>>

(***************************************************************************)
(* Bounds of the model.                                                    *)
(***************************************************************************)
\* descriptors of a process are 0..MaxFd (the open-file limit)
MaxFd == 6
\* a command carries at most MaxRedirs redirection operators (RedirSpec)
MaxRedirs == 2
\* a command list holds at most MaxCmds commands
MaxCmds == 3

(***************************************************************************)
(* C integer widths, scaled down: int is 8 bits wide and long 16 bits      *)
(* wide, so that words of a few digits reach both limits.                  *)
(***************************************************************************)
INT_MAX == 127
LONG_MAX == 32767
INT_MIN == -INT_MAX - 1
LONG_MIN == -LONG_MAX - 1

\* the conversion of a long to an int: the value modulo 2^8, as gcc and
\* clang define it for a value out of range
ToInt(v) == ((v - INT_MIN) % (2 * (INT_MAX + 1))) + INT_MIN

(***************************************************************************)
(* Words.  A word is a sequence of characters; the characters that matter  *)
(* to strtol are the minus sign and the digits.                            *)
(***************************************************************************)
Digits == {"0", "1", "2", "3", "4", "5", "6", "7", "8", "9"}

DigitVal(c) ==
    CASE c = "0" -> 0 [] c = "1" -> 1 [] c = "2" -> 2 [] c = "3" -> 3
      [] c = "4" -> 4 [] c = "5" -> 5 [] c = "6" -> 6 [] c = "7" -> 7
      [] c = "8" -> 8 [] c = "9" -> 9

\* the number of leading digits of w from position k on
RECURSIVE DigitRun(_, _)
DigitRun(w, k) ==
    IF k <= Len(w) /\ w[k] \in Digits THEN 1 + DigitRun(w, k + 1) ELSE 0

\* the magnitude of the digits w[k..k+n-1], saturating at LONG_MAX + 1
RECURSIVE Magnitude(_, _, _, _)
Magnitude(w, k, n, acc) ==
    IF n = 0 THEN acc
    ELSE LET next == acc * 10 + DigitVal(w[k])
         IN  Magnitude(w, k + 1, n - 1,
                       IF next > LONG_MAX THEN LONG_MAX + 1 ELSE next)

\* strtol(w, &end, 10): an optional sign, then digits; end is the index of
\* the first character not consumed (1 when there are no digits at all);
\* the value saturates at LONG_MAX and LONG_MIN
strtol(w) ==
    LET neg    == Len(w) >= 1 /\ w[1] = "-"
        first  == IF neg THEN 2 ELSE 1
        n      == DigitRun(w, first)
        mag    == Magnitude(w, first, n, 0)
    IN  IF n = 0 THEN [val |-> 0, end |-> 1]
        ELSE [val |-> IF neg THEN -mag
                      ELSE IF mag > LONG_MAX THEN LONG_MAX ELSE mag,
              end |-> first + n]

Dash == <<"-">>

(***************************************************************************)
(* The descriptor table of a process and the system calls on it.  A table  *)
(* maps each descriptor 0..MaxFd to the open file it refers to, or to      *)
(* Closed.  An open file is the terminal, an end of pipe number id, or a   *)
(* named file.                                                             *)
(***************************************************************************)
Fds == 0 .. MaxFd
Closed == [kind |-> "closed", id |-> 0, name |-> <<>>]
Tty == [kind |-> "tty", id |-> 0, name |-> <<>>]
PipeR(id) == [kind |-> "pipe_r", id |-> id, name |-> <<>>]
PipeW(id) == [kind |-> "pipe_w", id |-> id, name |-> <<>>]
File(name) == [kind |-> "file", id |-> 0, name |-> name]

IsPipe(f) == f.kind \in {"pipe_r", "pipe_w"}

\* the standard descriptors of the shell refer to the terminal
StdFds == [fd \in Fds |-> IF fd <= 2 THEN Tty ELSE Closed]

\* pipe(fds): the two lowest free descriptors become the read end and the
\* write end of a new pipe: [t, rd, wr, ret]
sys_pipe(t, id) ==
    IF Cardinality({fd \in Fds : t[fd] = Closed}) < 2
    THEN [t |-> t, rd |-> -1, wr |-> -1, ret |-> -1]
    ELSE LET free == {fd \in Fds : t[fd] = Closed}
             r == CHOOSE fd \in free : \A g \in free : fd <= g
             w == CHOOSE fd \in free \ {r} : \A g \in free \ {r} : fd <= g
         IN  [t |-> [t EXCEPT ![r] = PipeR(id), ![w] = PipeW(id)],
              rd |-> r, wr |-> w, ret |-> 0]

IsOpen(t, fd) == fd \in Fds /\ t[fd] # Closed

FreeFds(t) == {fd \in Fds : t[fd] = Closed}

\* the lowest free descriptor, -1 when the table is full (EMFILE)
LowestFree(t) ==
    IF FreeFds(t) = {} THEN -1
    ELSE CHOOSE fd \in FreeFds(t) : \A g \in FreeFds(t) : fd <= g

\* close(fd): [t, ret]
sys_close(t, fd) ==
    IF IsOpen(t, fd) THEN [t |-> [t EXCEPT ![fd] = Closed], ret |-> 0]
    ELSE [t |-> t, ret |-> -1]

\* dup2(old, new): [t, ret]
sys_dup2(t, old, new) ==
    IF IsOpen(t, old) /\ new \in Fds
    THEN [t |-> [t EXCEPT ![new] = t[old]], ret |-> new]
    ELSE [t |-> t, ret |-> -1]

\* dup(old): [t, ret]
sys_dup(t, old) ==
    IF IsOpen(t, old) /\ LowestFree(t) >= 0
    THEN [t |-> [t EXCEPT ![LowestFree(t)] = t[old]], ret |-> LowestFree(t)]
    ELSE [t |-> t, ret |-> -1]

\* open(name, flags, 0777) against the set fs of existing files:
\* [t, fs, ret].  The empty name never opens; O_EXCL fails on an existing
\* file; without O_CREAT the file must exist.
sys_open(t, fs, name, flags) ==
    LET exists == name \in fs
        ok == /\ name # <<>>
              /\ LowestFree(t) >= 0
              /\ IF exists THEN "O_EXCL" \notin flags ELSE "O_CREAT" \in flags
    IN  IF ok
        THEN [t |-> [t EXCEPT ![LowestFree(t)] = File(name)],
              fs |-> fs \cup {name}, ret |-> LowestFree(t)]
        ELSE [t |-> t, fs |-> fs, ret |-> -1]

(***************************************************************************)
(* runner.c: the redirection engines.                                      *)
(***************************************************************************)
IoOps == {"OP_LESSAND", "OP_LESS", "OP_GREATAND", "OP_GREAT",
          "OP_DGREAT", "OP_LESSGREAT", "OP_CLOBBER"}

get_io_flags(io_op) ==
    CASE io_op \in {"OP_LESSAND", "OP_LESS"} -> {"O_RDONLY"}
      [] io_op \in {"OP_GREATAND", "OP_GREAT"} -> {"O_WRONLY", "O_CREAT", "O_EXCL"}
      [] io_op = "OP_DGREAT" -> {"O_WRONLY", "O_CREAT", "O_APPEND"}
      [] io_op = "OP_LESSGREAT" -> {"O_RDWR", "O_CREAT"}
      [] io_op = "OP_CLOBBER" -> {"O_WRONLY", "O_CREAT", "O_TRUNC"}

\* move_fd(src, dst): [t, ret]
move_fd(t, src, dst) ==
    IF src = dst THEN [t |-> t, ret |-> dst]
    ELSE LET d == sys_dup2(t, src, dst)
         IN  IF d.ret < 0 THEN [t |-> t, ret |-> -1]
             ELSE LET c == sys_close(d.t, src)
                  IN  IF c.ret < 0 THEN [t |-> c.t, ret |-> -1]
                      ELSE [t |-> c.t, ret |-> dst]

\* the test of the strtol idiom: the operand is taken as a descriptor number
IsFdNumber(filename) ==
    LET p == strtol(filename)
    IN  filename # <<>> /\ p.end = Len(filename) + 1 /\ p.val <= INT_MAX


\* a search that never finds the record it looks for
FindRec_finds_none(list, n) == 0

\* the index of the first record of the list for pseudo-descriptor n, 0 when
\* there is none (the search loops of lines 181-187, 212-217, 238-243)
FindRec(list, n) ==
    IF \E k \in 1 .. Len(list) : list[k].pseudofd = n
    THEN CHOOSE k \in 1 .. Len(list) :
            /\ list[k].pseudofd = n
            /\ \A j \in 1 .. (k - 1) : list[j].pseudofd # n
    ELSE 0

\* a new record goes to the head of the list
PushRec(list, pseudofd, realfd) ==
    <<[pseudofd |-> pseudofd, realfd |-> realfd]>> \o list

\* lines 204-210: walk the list; src naming a real descriptor of the table
\* is refused (EBADF), src naming a pseudo-descriptor is replaced by its
\* real descriptor, and the walk goes on with the new src
RECURSIVE ResolveSrc(_, _, _)
ResolveSrc(list, k, src) ==
    IF k > Len(list) THEN [err |-> FALSE, src |-> src]
    ELSE IF list[k].realfd = src THEN [err |-> TRUE, src |-> src]
    ELSE ResolveSrc(list, k + 1,
                    IF list[k].pseudofd = src THEN list[k].realfd ELSE src)

\* lines 178-195: [n]>&- and [n]<&-
builtin_close_redirect(S, r, malloc_ok) ==
    LET k == FindRec(S.list, r.io_number)
    IN  IF k # 0
        THEN [fds  |-> sys_close(S.fds, S.list[k].realfd).t,
              fs   |-> S.fs,
              list |-> [S.list EXCEPT ![k].pseudofd = -1],
              err  |-> FALSE]
        ELSE IF ~malloc_ok
        THEN [fds |-> S.fds, fs |-> S.fs, list |-> S.list, err |-> TRUE]
        ELSE [fds |-> S.fds, fs |-> S.fs,
              list |-> PushRec(S.list, r.io_number, -1), err |-> FALSE]

\* lines 203-225: [n]>&m and [n]<&m with a numeric operand
builtin_dup_redirect(S, r, malloc_ok) ==
    LET res == ResolveSrc(S.list, 1, strtol(r.filename).val)
        k   == FindRec(S.list, r.io_number)
    IN  IF res.err
        THEN [fds |-> S.fds, fs |-> S.fs, list |-> S.list, err |-> TRUE]
        ELSE IF k # 0
        THEN LET d == sys_dup2(S.fds, ToInt(res.src), S.list[k].realfd)
             IN  [fds |-> d.t, fs |-> S.fs, list |-> S.list, err |-> d.ret < 0]
        ELSE IF ~malloc_ok
        THEN [fds |-> S.fds, fs |-> S.fs, list |-> S.list, err |-> TRUE]
        ELSE LET d == sys_dup(S.fds, ToInt(res.src))
             IN  [fds |-> d.t, fs |-> S.fs,
                  list |-> PushRec(S.list, r.io_number, d.ret), err |-> FALSE]

\* a variant that redirects for real, as do_io_redirects does: the opened
\* file is moved onto descriptor n of the shell itself
builtin_file_redirect_onto_real(S, r, malloc_ok) ==
    LET o == sys_open(S.fds, S.fs, r.filename, get_io_flags(r.io_op))
    IN  IF o.ret < 0
        THEN [fds |-> S.fds, fs |-> S.fs, list |-> S.list, err |-> TRUE]
        ELSE LET m == move_fd(o.t, o.ret, r.io_number)
             IN  [fds |-> m.t, fs |-> o.fs,
                  list |-> PushRec(S.list, r.io_number, r.io_number),
                  err |-> m.ret < 0]

\* lines 231-251: open the operand as a file; the descriptor replaces the
\* real descriptor of an existing record, or becomes a new record
builtin_file_redirect(S, r, malloc_ok) ==
    LET o == sys_open(S.fds, S.fs, r.filename, get_io_flags(r.io_op))
        k == FindRec(S.list, r.io_number)
    IN  IF o.ret < 0
        THEN [fds |-> S.fds, fs |-> S.fs, list |-> S.list, err |-> TRUE]
        ELSE IF k # 0
        THEN LET m == move_fd(o.t, o.ret, S.list[k].realfd)
             IN  [fds |-> m.t, fs |-> o.fs, list |-> S.list, err |-> m.ret < 0]
        ELSE IF ~malloc_ok
        THEN [fds |-> o.t, fs |-> o.fs, list |-> S.list, err |-> TRUE]
        ELSE [fds |-> o.t, fs |-> o.fs,
              list |-> PushRec(S.list, r.io_number, o.ret), err |-> FALSE]

\* one iteration of the loop of do_builtin_io_redirects (lines 170-257)
builtin_redirect(S, r, malloc_ok) ==
    IF r.io_op \in {"OP_GREATAND", "OP_LESSAND"}
    THEN IF r.filename = Dash THEN builtin_close_redirect(S, r, malloc_ok)
         ELSE IF IsFdNumber(r.filename) THEN builtin_dup_redirect(S, r, malloc_ok)
         ELSE builtin_file_redirect(S, r, malloc_ok)
    ELSE builtin_file_redirect(S, r, malloc_ok)

\* do_builtin_io_redirects from redirection k on: an error sets status to -1
\* and the loop goes on with the next redirection.  mallocs is the number
\* of allocations that succeed before one fails.
RECURSIVE do_builtin_io_redirects(_, _, _, _, _)
do_builtin_io_redirects(S, redirs, k, mallocs, status) ==
    IF k > Len(redirs)
    THEN [fds |-> S.fds, fs |-> S.fs, list |-> S.list, status |-> status]
    ELSE LET n == builtin_redirect(S, redirs[k], mallocs > 0)
             grew == Len(n.list) > Len(S.list)
         IN  do_builtin_io_redirects(
                 [fds |-> n.fds, fs |-> n.fs, list |-> n.list], redirs, k + 1,
                 IF grew THEN mallocs - 1 ELSE mallocs,
                 IF n.err THEN -1 ELSE status)

\* lines 285-290: [n]>&- and [n]<&- on the real descriptors
io_close_redirect(S, r) ==
    LET c == sys_close(S.fds, r.io_number)
    IN  [fds |-> c.t, fs |-> S.fs, err |-> c.ret < 0]

\* lines 304-315: [n]>&m and [n]<&m with a numeric operand
io_dup_redirect(S, r) ==
    LET d == sys_dup2(S.fds, ToInt(strtol(r.filename).val), r.io_number)
    IN  [fds |-> d.t, fs |-> S.fs, err |-> d.ret < 0]

\* lines 327-347: open the operand and move it onto the target descriptor
io_file_redirect(S, r) ==
    LET o == sys_open(S.fds, S.fs, r.filename, get_io_flags(r.io_op))
    IN  IF o.ret < 0 THEN [fds |-> S.fds, fs |-> S.fs, err |-> TRUE]
        ELSE LET m == move_fd(o.t, o.ret, r.io_number)
             IN  [fds |-> m.t, fs |-> o.fs, err |-> m.ret < 0]

\* one iteration of the loop of do_io_redirects (lines 277-348)
io_redirect(S, r) ==
    IF r.io_op \in {"OP_GREATAND", "OP_LESSAND"}
    THEN IF r.filename = Dash THEN io_close_redirect(S, r)
         ELSE IF IsFdNumber(r.filename) THEN io_dup_redirect(S, r)
         ELSE io_file_redirect(S, r)
    ELSE io_file_redirect(S, r)

\* do_io_redirects from redirection k on: the first error ends the loop
RECURSIVE do_io_redirects(_, _, _)
do_io_redirects(S, redirs, k) ==
    IF k > Len(redirs) THEN [fds |-> S.fds, fs |-> S.fs, status |-> 0]
    ELSE LET n == io_redirect(S, redirs[k])
         IN  IF n.err THEN [fds |-> n.fds, fs |-> n.fs, status |-> -1]
             ELSE do_io_redirects([fds |-> n.fds, fs |-> n.fs], redirs, k + 1)

\* lines 552-557: close every record's real descriptor and free the list
RECURSIVE close_redir_list(_, _, _)
close_redir_list(t, list, k) ==
    IF k > Len(list) THEN t
    ELSE close_redir_list(sys_close(t, list[k].realfd).t, list, k + 1)


(***************************************************************************)
(* RedirSpec: the redirections of one command.                             *)
(*                                                                         *)
(* rd.kind    "builtin" (lines 521-566) or "external" (lines 567-604)      *)
(* rd.forked  whether the command runs in a forked child (FALSE: the       *)
(*            builtin runs in the shell process itself)                    *)
(* rd.up, rd.down  the pipe descriptors handed to the command, -1 if none  *)
(* rd.fds0    the descriptor table when the command starts                 *)
(* rd.prev    the state before the last redirection was applied            *)
(* rd.post    the state after it, and whether it failed (rd.k > 1)         *)
(***************************************************************************)
Words == {Dash, <<"1">>, <<"3">>, <<"-", "5">>, <<"-", "2", "5", "5">>,
          <<"f">>, <<"1", "x">>, <<"9", "9", "9">>, <<>>}

Redirs ==
    [io_op : {"OP_GREATAND"}, io_number : {1}, filename : Words]
    \cup [io_op : {"OP_LESSAND"}, io_number : {0},
          filename : {Dash, <<"1">>, <<"-", "5">>, <<"f">>}]
    \cup [io_op : {"OP_GREATAND"}, io_number : {2}, filename : {<<"1">>}]
    \cup [io_op : {"OP_GREAT", "OP_DGREAT", "OP_CLOBBER"}, io_number : {1},
          filename : {<<"f">>}]
    \cup [io_op : {"OP_LESS", "OP_LESSGREAT"}, io_number : {0},
          filename : {<<"f">>}]

RECURSIVE SeqsUpTo(_, _)
SeqsUpTo(S, n) ==
    IF n = 0 THEN {<<>>}
    ELSE LET shorter == SeqsUpTo(S, n - 1)
         IN  shorter \cup {Append(q, x) : q \in shorter, x \in S}

\* the descriptor table of the process about to run a command with the
\* given pipes: the upstream read end was created for the previous stage,
\* the downstream pipe by this iteration (lines 429-456)
CommandFds(has_up, has_down) ==
    LET t1 == IF has_up THEN [StdFds EXCEPT ![3] = PipeR(1)] ELSE StdFds
    IN  IF has_down THEN sys_pipe(t1, 2).t ELSE t1

FdOf(t, f) == IF \E fd \in Fds : t[fd] = f
              THEN CHOOSE fd \in Fds : t[fd] = f ELSE -1

\* the signal dispositions are not followed
NoSg == [pc |-> "off"]

NoRd == [pc |-> "off", kind |-> "none", forked |-> FALSE, redirs |-> <<>>,
         k |-> 0, fds |-> StdFds, fs |-> {}, list |-> <<>>, status |-> 0,
         up |-> -1, down |-> -1, fds0 |-> StdFds,
         prev |-> [fds |-> StdFds, fs |-> {}, list |-> <<>>],
         post |-> [fds |-> StdFds, fs |-> {}, list |-> <<>>, err |-> FALSE],
         malloc_ok |-> TRUE, result |-> "none"]

RedirInit ==
    /\ \E kind \in {"builtin", "external"}, forked \in BOOLEAN,
          has_up \in BOOLEAN, has_down \in BOOLEAN,
          redirs \in SeqsUpTo(Redirs, MaxRedirs), fs \in {{}, {<<"f">>}} :
          \* should_fork (line 469): only a foreground builtin is not
          \* forked, and a foreground command has no downstream pipe
          /\ kind = "external" => forked
          /\ has_down => forked
          /\ rd = [NoRd EXCEPT
                     !.pc = IF kind = "builtin" THEN "seed" ELSE "pipes",
                     !.kind = kind, !.forked = forked, !.redirs = redirs,
                     !.k = 1, !.fs = fs,
                     !.fds = CommandFds(has_up, has_down),
                     !.fds0 = CommandFds(has_up, has_down),
                     !.up = FdOf(CommandFds(has_up, has_down), PipeR(1)),
                     !.down = FdOf(CommandFds(has_up, has_down), PipeW(2)),
                     !.prev = [fds |-> CommandFds(has_up, has_down),
                               fs |-> fs, list |-> <<>>]]
    /\ sg = NoSg
    /\ cl = <<>>
    /\ sh = [pc |-> "off"]
    /\ procs = <<>>
    /\ jobs = <<>>
    /\ out = <<>>
    /\ tty = 0
    /\ wt = [pc |-> "off"]
    /\ hist = <<>>

\* lines 524-541: seed the list with the pipe ends; a failed allocation
\* leaves run_command_list through err
seed_redir_list(up, down, mallocs) ==
    LET need == (IF up >= 0 THEN 1 ELSE 0) + (IF down >= 0 THEN 1 ELSE 0)
        l1 == IF up >= 0 THEN PushRec(<<>>, 0, up) ELSE <<>>
        l2 == IF down >= 0 THEN PushRec(l1, 1, down) ELSE l1
    IN  IF mallocs < need THEN [ok |-> FALSE, list |-> <<>>]
        ELSE [ok |-> TRUE, list |-> l2]

RSeed ==
    /\ rd.pc = "seed"
    /\ \E mallocs \in 0 .. 2 :
          LET s == seed_redir_list(rd.up, rd.down, mallocs)
          IN  rd' = IF s.ok
                    THEN [rd EXCEPT !.pc = "redir", !.list = s.list,
                                    !.prev.list = s.list]
                    ELSE [rd EXCEPT !.pc = "done", !.result = "err"]
    /\ UNCHANGED shvars

\* one iteration of the loop of do_builtin_io_redirects
RBuiltinRedirect ==
    /\ rd.pc = "redir" /\ rd.kind = "builtin" /\ rd.k <= Len(rd.redirs)
    /\ \E malloc_ok \in BOOLEAN :
          LET n == builtin_redirect([fds |-> rd.fds, fs |-> rd.fs,
                                     list |-> rd.list], rd.redirs[rd.k], malloc_ok)
          IN  rd' = [rd EXCEPT !.fds = n.fds, !.fs = n.fs, !.list = n.list,
                               !.status = IF n.err THEN -1 ELSE @,
                               !.k = @ + 1, !.malloc_ok = malloc_ok,
                               !.post = n,
                               !.prev = [fds |-> rd.fds, fs |-> rd.fs,
                                         list |-> rd.list]]
    /\ UNCHANGED shvars

\* lines 543-548: the status of do_builtin_io_redirects is not looked at;
\* the builtin is called with the list as it is
RInvokeBuiltin ==
    /\ rd.pc = "redir" /\ rd.kind = "builtin" /\ rd.k > Len(rd.redirs)
    /\ rd' = [rd EXCEPT !.pc = "cleanup", !.result = "invoked"]
    /\ UNCHANGED shvars

\* lines 550-561
RCleanup ==
    /\ rd.pc = "cleanup"
    /\ rd' = [rd EXCEPT !.pc = "done", !.list = <<>>,
                        !.fds = close_redir_list(rd.fds, rd.list, 1)]
    /\ UNCHANGED shvars

\* lines 571-581: the pipe ends become descriptors 0 and 1 of the child
move_pipes(t, up, down) ==
    LET m1 == IF up >= 0 THEN move_fd(t, up, 0) ELSE [t |-> t, ret |-> 0]
        m2 == IF down >= 0 THEN move_fd(m1.t, down, 1) ELSE [t |-> m1.t, ret |-> 0]
    IN  IF m1.ret < 0 THEN [t |-> m1.t, ok |-> FALSE]
        ELSE [t |-> m2.t, ok |-> m2.ret >= 0]

RMovePipes ==
    /\ rd.pc = "pipes"
    /\ LET m == move_pipes(rd.fds, rd.up, rd.down)
       IN  rd' = IF m.ok
                 THEN [rd EXCEPT !.pc = "redir", !.fds = m.t, !.prev.fds = m.t]
                 ELSE [rd EXCEPT !.pc = "done", !.fds = m.t, !.result = "exit1"]
    /\ UNCHANGED shvars

\* one iteration of the loop of do_io_redirects; an error is err(1, 0)
RIoRedirect ==
    /\ rd.pc = "redir" /\ rd.kind = "external" /\ rd.k <= Len(rd.redirs)
    /\ LET n == io_redirect([fds |-> rd.fds, fs |-> rd.fs], rd.redirs[rd.k])
       IN  rd' = [rd EXCEPT !.fds = n.fds, !.fs = n.fs,
                            !.status = IF n.err THEN -1 ELSE @,
                            !.k = @ + 1,
                            !.pc = IF n.err THEN "done" ELSE @,
                            !.result = IF n.err THEN "exit1" ELSE @,
                            !.post = [fds |-> n.fds, fs |-> n.fs,
                                      list |-> <<>>, err |-> n.err],
                            !.prev = [fds |-> rd.fds, fs |-> rd.fs,
                                      list |-> <<>>]]
    /\ UNCHANGED shvars

\* lines 588-602: assignment, signal_restore, execvp; each may fail
RExec ==
    /\ rd.pc = "redir" /\ rd.kind = "external" /\ rd.k > Len(rd.redirs)
    /\ \E r \in {"exec", "exit1", "exit127"} :
          rd' = [rd EXCEPT !.pc = "done", !.result = r]
    /\ UNCHANGED shvars

RedirNext ==
    \/ RSeed
    \/ RBuiltinRedirect
    \/ RInvokeBuiltin
    \/ RCleanup
    \/ RMovePipes
    \/ RIoRedirect
    \/ RExec

RedirSpec == RedirInit /\ [][RedirNext]_vars


(***************************************************************************)
(* Spec: the shell running one command list.                               *)
(*                                                                         *)
(* Wait statuses, as waitpid reports them and the job table stores them.   *)
(***************************************************************************)
Exited(c) == [kind |-> "exited", val |-> c]
Signaled(sig) == [kind |-> "signaled", val |-> sig]
Stopped(sig) == [kind |-> "stopped", val |-> sig]

\* no wait has collected the status of the process yet
NoStatus == [kind |-> "none", val |-> 0]

WIFEXITED(st) == st.kind = "exited"
WIFSIGNALED(st) == st.kind = "signaled"
WIFSTOPPED(st) == st.kind = "stopped"

\* the statuses a child of the shell can end with: a program ends by exit
\* or by a signal, err(1, 0) and err(127, 0) exit with 1 and 127, a forked
\* builtin exits with 0 or 127 (line 559)
ExitStatuses(builtin) ==
    IF builtin THEN {Exited(0), Exited(127)}
    ELSE {Exited(0), Exited(1), Exited(127), Signaled(15)}

\* the pid of the shell, which leads its own process group; children get
\* the pids after it, in fork order
ShellPid == 1

\* a wait may be interrupted by a signal at most MaxIntr times
MaxIntr == 1

\* the process limit: fork fails once the shell has made MaxProcs children
MaxProcs == 2

(***************************************************************************)
(* The job table (jobs.c, an external collaborator): an array of           *)
(* {jid, pgid, status} in registration order.                              *)
(***************************************************************************)
InitialJobStatus == Exited(0)

JobIndex(js, pgid) ==
    IF \E k \in 1 .. Len(js) : js[k].pgid = pgid
    THEN CHOOSE k \in 1 .. Len(js) :
            js[k].pgid = pgid /\ \A j \in 1 .. (k - 1) : js[j].pgid # pgid
    ELSE 0

JidIndex(js, jid) ==
    IF \E k \in 1 .. Len(js) : js[k].jid = jid
    THEN CHOOSE k \in 1 .. Len(js) : js[k].jid = jid
    ELSE 0

\* register(pid) -> job_id: the smallest job id not in use
jobs_add(js, pgid) ==
    LET used == {js[k].jid : k \in 1 .. Len(js)}
        jid  == CHOOSE n \in 0 .. Len(js) :
                    n \notin used /\ \A m \in 0 .. (n - 1) : m \in used
    IN  [jobs |-> Append(js, [jid |-> jid, pgid |-> pgid,
                              status |-> InitialJobStatus]),
         jid |-> jid]

\* find_job_by_group(pgid) -> job_id | fail
jobs_get_jid(js, pgid) ==
    IF JobIndex(js, pgid) = 0 THEN -1 ELSE js[JobIndex(js, pgid)].jid

\* the group of a job id | fail
jobs_get_pgid(js, jid) ==
    IF JidIndex(js, jid) = 0 THEN -1 ELSE js[JidIndex(js, jid)].pgid

\* record_status(job_id, raw_status) -> ok | fail
jobs_set_status(js, jid, status) ==
    IF JidIndex(js, jid) = 0 THEN [jobs |-> js, ret |-> -1]
    ELSE [jobs |-> [js EXCEPT ![JidIndex(js, jid)].status = status], ret |-> 0]

\* last_status(job_id) -> raw_status | fail
jobs_get_status(js, jid) ==
    IF JidIndex(js, jid) = 0 THEN [status |-> InitialJobStatus, ret |-> -1]
    ELSE [status |-> js[JidIndex(js, jid)].status, ret |-> 0]

\* forget_group(pgid) -> ok | fail: the later entries move down
jobs_remove_pgid(js, pgid) ==
    LET k == JobIndex(js, pgid)
    IN  IF k = 0 THEN [jobs |-> js, ret |-> -1]
        ELSE [jobs |-> SubSeq(js, 1, k - 1) \o SubSeq(js, k + 1, Len(js)),
              ret |-> 0]

(***************************************************************************)
(* The processes.  procs[n] is the child with pid ShellPid + n.            *)
(*   st      "forked"   the child has not yet run its side of the fork     *)
(*           "running"  it runs the external program                       *)
(*           "stopped"  it was stopped by the terminal's stop signal       *)
(*           "returned" it left run_command_list through err and lives on  *)
(*           "zombie"   it has terminated and is not yet reaped            *)
(*           "reaped"   a wait has collected it                            *)
(*   pgid    its process group (kept after it is reaped, as history)       *)
(*           (the wait status of a zombie is not observable before the     *)
(*           wait that reaps it, and is drawn there)                       *)
(*   tgt     the group its own setpgid call asks for (pipeline_data.pgid   *)
(*           at the fork)                                                  *)
(***************************************************************************)
Pids == {ShellPid + n : n \in 1 .. Len(procs)}
Proc(pid) == procs[pid - ShellPid]

Alive(pid) == Proc(pid).st \in {"forked", "running", "stopped", "returned"}
Unreaped(pid) == Proc(pid).st # "reaped"

\* the children of the shell that a wait on group g looks at
GroupChildren(g) == {pid \in Pids : Proc(pid).pgid = g /\ Unreaped(pid)}
\* every process ever put in group g
GroupMembers(g) == {pid \in Pids : Proc(pid).pgid = g}

\* setpgid(pid, pgid): pgid 0 makes the process the leader of a new group
setpgid_group(pid, pgid) == IF pgid = 0 THEN pid ELSE pgid

(***************************************************************************)
(* The command list.                                                       *)
(***************************************************************************)
\* the redirections a builtin of the list may carry
ListRedirs == {[io_op |-> "OP_LESSAND", io_number |-> 0, filename |-> Dash]}

\* the redirections of a forked command act on the child's descriptors,
\* which RedirSpec follows; here only a ; builtin carries one
Commands ==
    [ctrl_op : {";", "&", "|"}, is_builtin : BOOLEAN, redirs : {<<>>}]
    \cup [ctrl_op : {";"}, is_builtin : {TRUE},
          redirs : SeqsUpTo(ListRedirs, 1) \ {<<>>}]

\* the lists the parser hands over: a pipeline is closed by ; or &
CommandLists ==
    {c \in SeqsUpTo(Commands, MaxCmds) :
        Len(c) >= 1 /\ c[Len(c)].ctrl_op # "|"}

\* the first and the last command of the pipeline command k belongs to
RECURSIVE PipelineStart(_, _)
PipelineStart(c, k) ==
    IF k > 1 /\ c[k - 1].ctrl_op = "|" THEN PipelineStart(c, k - 1) ELSE k

RECURSIVE PipelineEnd(_, _)
PipelineEnd(c, k) ==
    IF k < Len(c) /\ c[k].ctrl_op = "|" THEN PipelineEnd(c, k + 1) ELSE k

\* line 469
should_fork_always(is_builtin, is_fg) == TRUE

should_fork(is_builtin, is_fg) == ~is_builtin \/ ~is_fg

\* lines 613-615
parent_close_downstream_only(t, up, down) ==
    IF down >= 0 THEN sys_close(t, down).t ELSE t

parent_close_pipes(t, up, down) ==
    LET t1 == IF down >= 0 THEN sys_close(t, down).t ELSE t
    IN  IF up >= 0 THEN sys_close(t1, up).t ELSE t1

NoWt == [pc |-> "off", pgid |-> 0, jid |-> -1, caller |-> "none",
         reaps |-> 0, echild |-> 0, intr |-> 0, handed |-> FALSE,
         restored |-> FALSE, retval |-> 0]

Init ==
    /\ sg = NoSg
    /\ rd = NoRd
    /\ cl \in CommandLists
    /\ \E interactive \in BOOLEAN :
          sh = [pc |-> "loop", i |-> 1, interactive |-> interactive,
                pipe_fd |-> -1, pgid |-> 0, jid |-> -1,
                upstream |-> -1, downstream |-> -1, child_pid |-> 0,
                fds |-> StdFds, fs |-> {}, npipes |-> 0,
                status |-> 0, bg_pid |-> 0, rc |-> 0, exit |-> "none",
                scan_i |-> 0, scan_count |-> 0]
    /\ procs = <<>>
    /\ jobs = <<>>
    /\ out = <<>>
    /\ tty = ShellPid
    /\ wt = NoWt
    /\ hist = [cmds |-> [k \in 1 .. Len(cl) |->
                           [how |-> "pending", pid |-> 0, jid |-> -1,
                            waited |-> FALSE, status |-> NoStatus]],
               removed |-> <<>>]

(***************************************************************************)
(* run_command_list (runner.c lines 358-660), the shell's side.            *)
(***************************************************************************)
Cmd == cl[sh.i]
is_pl == Cmd.ctrl_op = "|"
is_bg == Cmd.ctrl_op = "&"
is_fg == Cmd.ctrl_op = ";"

\* lines 403-456: the upstream descriptor is taken over from the previous
\* iteration, and a | command gets a new pipe
pipe_setup ==
    LET p == IF is_pl THEN sys_pipe(sh.fds, sh.npipes + 1)
             ELSE [t |-> sh.fds, rd |-> -1, wr |-> -1, ret |-> 0]
    IN  [ok |-> p.ret = 0, fds |-> p.t, upstream |-> sh.pipe_fd,
         downstream |-> p.wr, pipe_fd |-> p.rd,
         npipes |-> IF is_pl THEN sh.npipes + 1 ELSE sh.npipes]

\* the for loop goes on with the next command, or run_command_list
\* returns 0 after the last one (line 657)
next_command(s) ==
    IF s.i < Len(cl) THEN [s EXCEPT !.i = @ + 1, !.pc = "loop"]
    ELSE [s EXCEPT !.i = @ + 1, !.pc = "idle", !.rc = 0, !.exit = "end"]

\* lines 649-654
pipeline_reset(s, pl) ==
    IF pl THEN s ELSE [s EXCEPT !.pgid = 0, !.jid = -1]

\* lines 436 and 658-659 with the failure reported and the loop going on
list_abort_goes_on(s, why) ==
    IF s.i < Len(cl) THEN [s EXCEPT !.i = @ + 1, !.pc = "loop", !.exit = why]
    ELSE [s EXCEPT !.i = @ + 1, !.pc = "idle", !.rc = -1, !.exit = why]

\* lines 436 and 658-659: run_command_list returns -1
list_abort(s, why) ==
    [s EXCEPT !.pc = "idle", !.rc = -1, !.exit = why]

\* lines 433-437: pipe fails, run_command_list returns -1 at once
PipeFails ==
    /\ sh.pc = "loop" /\ is_pl
    /\ sh' = list_abort(sh, "pipe_failed")
    /\ UNCHANGED <<sg, rd, cl, procs, jobs, out, tty, wt, hist>>

\* lines 472-479: fork fails, run_command_list leaves through err
ForkFails ==
    /\ sh.pc = "loop" /\ pipe_setup.ok
    /\ should_fork(Cmd.is_builtin, is_fg)
    /\ sh' = list_abort([sh EXCEPT !.fds = pipe_setup.fds,
                                   !.npipes = pipe_setup.npipes,
                                   !.pipe_fd = pipe_setup.pipe_fd], "err")
    /\ UNCHANGED <<sg, rd, cl, procs, jobs, out, tty, wt, hist>>

\* lines 398-483: the command is forked; the child starts in the group of
\* the shell and has not run yet
ForkCommand ==
    /\ sh.pc = "loop" /\ pipe_setup.ok
    /\ should_fork(Cmd.is_builtin, is_fg)
    /\ Len(procs) < MaxProcs
    /\ procs' = Append(procs, [st |-> "forked", pgid |-> ShellPid,
                               tgt |-> sh.pgid, cmd |-> sh.i])
    /\ sh' = [sh EXCEPT !.pc = "forked",
                        !.fds = pipe_setup.fds, !.npipes = pipe_setup.npipes,
                        !.pipe_fd = pipe_setup.pipe_fd,
                        !.upstream = pipe_setup.upstream,
                        !.downstream = pipe_setup.downstream,
                        !.child_pid = ShellPid + Len(procs) + 1]
    /\ UNCHANGED <<sg, rd, cl, jobs, out, tty, wt, hist>>

\* lines 520-566 and 607 with child_pid = 0 and no fork: the builtin runs
\* in the shell.  mallocs is the number of allocations that succeed,
\* result what the builtin returns.
RunBuiltinInShell ==
    /\ sh.pc = "loop" /\ pipe_setup.ok
    /\ ~should_fork(Cmd.is_builtin, is_fg)
    /\ \E mallocs \in 0 .. 2, result \in {0, 1} :
          LET ps == pipe_setup
              seed == seed_redir_list(ps.upstream, ps.downstream, mallocs)
              R == do_builtin_io_redirects(
                       [fds |-> ps.fds, fs |-> sh.fs, list |-> seed.list],
                       Cmd.redirs, 1, mallocs - Len(seed.list), 0)
              s1 == [sh EXCEPT !.fds = ps.fds, !.npipes = ps.npipes,
                               !.pipe_fd = ps.pipe_fd,
                               !.upstream = ps.upstream,
                               !.downstream = ps.downstream,
                               !.child_pid = 0]
              s2 == [s1 EXCEPT !.fds = close_redir_list(R.fds, R.list, 1),
                               !.fs = R.fs,
                               !.status = IF result # 0 THEN 127 ELSE 0]
          IN  /\ sh' = IF ~seed.ok
                       THEN list_abort(s1, "err")
                       ELSE IF ~is_fg THEN [s2 EXCEPT !.pc = "exited"]
                       ELSE next_command(s2)
              /\ hist' = IF seed.ok
                         THEN [hist EXCEPT !.cmds[sh.i].how = "inproc"]
                         ELSE hist
    /\ UNCHANGED <<sg, rd, cl, procs, jobs, out, tty, wt>>

\* lines 487-509 in the parent: setpgid fails with an error other than
\* EACCES, run_command_list leaves through err
ParentSetpgidFails ==
    /\ sh.pc = "forked"
    /\ sh' = list_abort(sh, "err")
    /\ UNCHANGED <<sg, rd, cl, procs, jobs, out, tty, wt, hist>>

\* lines 485-517 and 607-655 in the parent: the child is put in the group
\* of the pipeline (EACCES, the child has exec'ed, is ignored: the child's
\* own call has done the same), the first child of a pipeline is
\* registered as a job, the pipe ends are closed, and the shell either
\* calls wait_on_fg_pgid or goes on
ParentAfterFork ==
    /\ sh.pc = "forked"
    /\ LET c == sh.child_pid
           first == sh.pgid = 0
           added == jobs_add(jobs, c)
           pgid1 == IF first THEN c ELSE sh.pgid
           jid1 == IF first THEN added.jid ELSE sh.jid
           s1 == [sh EXCEPT !.pgid = pgid1, !.jid = jid1,
                            !.fds = parent_close_pipes(sh.fds, sh.upstream,
                                                       sh.downstream)]
       IN  /\ procs' = [procs EXCEPT ![c - ShellPid].pgid =
                                          setpgid_group(c, sh.pgid)]
           /\ jobs' = IF first THEN added.jobs ELSE jobs
           /\ hist' = [hist EXCEPT !.cmds[sh.i] =
                          [how |-> "spawned", pid |-> c,
                           jid |-> IF first THEN added.jid ELSE -1,
                           waited |-> is_fg, status |-> NoStatus]]
           /\ IF is_fg
              THEN /\ sh' = [s1 EXCEPT !.pc = "fg_enter"]
                   /\ wt' = [NoWt EXCEPT !.pc = "enter", !.pgid = pgid1,
                                         !.caller = "list"]
                   /\ out' = out
              ELSE /\ sh' = next_command(pipeline_reset(
                                [s1 EXCEPT !.bg_pid = c, !.status = 0], is_pl))
                   /\ wt' = wt
                   /\ out' = IF is_bg
                             THEN Append(out, [kind |-> "start", jid |-> jid1,
                                               pgid |-> pgid1, cmd |-> sh.i])
                             ELSE out
    /\ UNCHANGED <<sg, rd, cl, tty>>

(***************************************************************************)
(* The children's side of run_command_list.                                *)
(***************************************************************************)
ChildCmd(pid) == cl[Proc(pid).cmd]

SetProc(pid, st, pgid) ==
    [procs EXCEPT ![pid - ShellPid].st = st,
                  ![pid - ShellPid].pgid = pgid]

\* lines 487-509 in the child: setpgid fails with an error other than
\* EACCES and the child leaves run_command_list through err.  Once the
\* parent's call has put the child in its group, the child's own call
\* asks for the group it is in and cannot fail.
ChildSetpgidFails(pid) ==
    /\ Proc(pid).st = "forked" /\ Proc(pid).pgid = ShellPid
    /\ procs' = SetProc(pid, "returned", Proc(pid).pgid)
    /\ UNCHANGED <<sg, rd, cl, sh, jobs, out, tty, wt, hist>>

\* lines 521-561 in the child: a forked builtin runs and exits with 0 or 127
ChildRunsBuiltin(pid) ==
    /\ Proc(pid).st = "forked" /\ ChildCmd(pid).is_builtin
    /\ procs' = SetProc(pid, "zombie", setpgid_group(pid, Proc(pid).tgt))
    /\ UNCHANGED <<sg, rd, cl, sh, jobs, out, tty, wt, hist>>

\* lines 524-541 in the child: a forked builtin with a pipe cannot allocate
\* the record for it and leaves run_command_list through err
ChildAllocFails(pid) ==
    /\ Proc(pid).st = "forked" /\ ChildCmd(pid).is_builtin
    /\ \/ ChildCmd(pid).ctrl_op = "|"
       \/ PipelineStart(cl, Proc(pid).cmd) # Proc(pid).cmd
    /\ procs' = SetProc(pid, "returned", setpgid_group(pid, Proc(pid).tgt))
    /\ UNCHANGED <<sg, rd, cl, sh, jobs, out, tty, wt, hist>>

\* lines 567-599 in the child: the external program is exec'ed
ChildExecs(pid) ==
    /\ Proc(pid).st = "forked" /\ ~ChildCmd(pid).is_builtin
    /\ procs' = SetProc(pid, "running", setpgid_group(pid, Proc(pid).tgt))
    /\ UNCHANGED <<sg, rd, cl, sh, jobs, out, tty, wt, hist>>

\* lines 571-602 in the child: err(1, 0) before the exec, err(127, 0) when
\* the exec fails
ChildFailsToExec(pid) ==
    /\ Proc(pid).st = "forked" /\ ~ChildCmd(pid).is_builtin
    /\ procs' = SetProc(pid, "zombie", setpgid_group(pid, Proc(pid).tgt))
    /\ UNCHANGED <<sg, rd, cl, sh, jobs, out, tty, wt, hist>>

\* a program ends, by exit or by a signal
ChildExit(pid) ==
    /\ Proc(pid).st \in {"running", "returned"}
    /\ procs' = SetProc(pid, "zombie", Proc(pid).pgid)
    /\ UNCHANGED <<sg, rd, cl, sh, jobs, out, tty, wt, hist>>

\* the terminal's stop signal reaches the foreground group
TerminalStop ==
    /\ sh.interactive /\ tty # ShellPid
    /\ \E pid \in GroupChildren(tty) : Proc(pid).st = "running"
    /\ procs' = [n \in 1 .. Len(procs) |->
                    IF procs[n].pgid = tty /\ procs[n].st = "running"
                    THEN [procs[n] EXCEPT !.st = "stopped"] ELSE procs[n]]
    /\ UNCHANGED <<sg, rd, cl, sh, jobs, out, tty, wt, hist>>

(***************************************************************************)
(* wait_on_fg_pgid (wait.c lines 15-148).                                  *)
(***************************************************************************)
\* kill(-pgid, SIGCONT): the stopped processes of the group run again
continue_group(ps, pgid) ==
    [n \in 1 .. Len(ps) |->
        IF ps[n].pgid = pgid /\ ps[n].st = "stopped"
        THEN [ps[n] EXCEPT !.st = "running"] ELSE ps[n]]

\* lines 18-40: why the call returns -1 before the terminal is touched,
\* "" when it does not
fg_early_failure(js, pgid) ==
    IF pgid < 0 THEN "bad pgid"
    ELSE IF jobs_get_jid(js, pgid) < 0 THEN "unknown job"
    ELSE IF GroupChildren(pgid) = {} THEN "ESRCH"
    ELSE ""

\* lines 127-147 with the step left out
fg_out_without_restore(w, interactive, retval) ==
    [w EXCEPT !.pc = "return", !.retval = retval]

\* lines 127-147: out and err; the shell's group gets the terminal back
fg_out(w, interactive, retval) ==
    [w EXCEPT !.pc = "return", !.retval = retval,
              !.restored = interactive]

\* lines 18-59: a naked return -1
FgEnterFails ==
    /\ sh.pc = "fg_enter"
    /\ fg_early_failure(jobs, wt.pgid) # ""
    /\ wt' = [wt EXCEPT !.pc = "return", !.retval = -1]
    /\ sh' = [sh EXCEPT !.pc = "fg_ret"]
    /\ UNCHANGED <<sg, rd, cl, procs, jobs, out, tty, hist>>

\* lines 43-58: tcsetpgrp fails, a naked return -1; the group has been
\* continued
FgHandOffFails ==
    /\ sh.pc = "fg_enter" /\ sh.interactive
    /\ fg_early_failure(jobs, wt.pgid) = ""
    /\ procs' = continue_group(procs, wt.pgid)
    /\ wt' = [wt EXCEPT !.pc = "return", !.retval = -1,
                        !.jid = jobs_get_jid(jobs, wt.pgid)]
    /\ sh' = [sh EXCEPT !.pc = "fg_ret"]
    /\ UNCHANGED <<sg, rd, cl, jobs, out, tty, hist>>

\* lines 18-65: the group is continued and, when interactive, given the
\* terminal; the wait loop starts
FgEnter ==
    /\ sh.pc = "fg_enter"
    /\ fg_early_failure(jobs, wt.pgid) = ""
    /\ procs' = continue_group(procs, wt.pgid)
    /\ tty' = IF sh.interactive THEN wt.pgid ELSE tty
    /\ wt' = [wt EXCEPT !.pc = "wait", !.jid = jobs_get_jid(jobs, wt.pgid),
                        !.handed = sh.interactive]
    /\ sh' = [sh EXCEPT !.pc = "fg_wait"]
    /\ UNCHANGED <<sg, rd, cl, jobs, out, hist>>

\* the terminal after out: line 142
tty_after(w) == IF w.restored THEN ShellPid ELSE tty

\* lines 78, 111-124: waitpid(-pgid, &status, 0) reaps a terminated child
\* of the group; options 0 report no stopped child
FgReap(pid) ==
    /\ sh.pc = "fg_wait"
    /\ pid \in GroupChildren(wt.pgid) /\ Proc(pid).st = "zombie"
    /\ \E status \in ExitStatuses(ChildCmd(pid).is_builtin) :
       LET set == jobs_set_status(jobs, wt.jid, status)
           w1 == [wt EXCEPT !.reaps = @ + 1]
           w2 == IF set.ret < 0 THEN fg_out(w1, sh.interactive, -1)
                 ELSE IF WIFSTOPPED(status) THEN fg_out(w1, sh.interactive, 0)
                 ELSE w1
       IN  /\ procs' = SetProc(pid, "reaped", Proc(pid).pgid)
           /\ jobs' = set.jobs
           /\ wt' = w2
           /\ out' = IF set.ret = 0 /\ WIFSTOPPED(status)
                     THEN Append(out, [kind |-> "stopped", jid |-> wt.jid,
                                       pgid |-> wt.pgid, cmd |-> 0])
                     ELSE out
           /\ tty' = IF w2.pc = "return" THEN tty_after(w2) ELSE tty
           /\ sh' = IF w2.pc = "return" THEN [sh EXCEPT !.pc = "fg_ret"] ELSE sh
           /\ hist' = [hist EXCEPT !.cmds[Proc(pid).cmd].status = status]
    /\ UNCHANGED <<sg, rd, cl>>

\* lines 90-95 with the signal number taken as it is
translate_status_without_offset(old, status) ==
    IF WIFEXITED(status) \/ WIFSIGNALED(status) THEN status.val ELSE old

\* params.status from a wait status (lines 90-95)
translate_status(old, status) ==
    IF WIFEXITED(status) THEN status.val
    ELSE IF WIFSIGNALED(status) THEN 128 + status.val
    ELSE old

\* lines 79-103: ECHILD, no child of the group is left
FgNoChildren ==
    /\ sh.pc = "fg_wait"
    /\ GroupChildren(wt.pgid) = {}
    /\ LET got == jobs_get_status(jobs, wt.jid)
           w1 == [wt EXCEPT !.echild = @ + 1]
           w2 == fg_out(w1, sh.interactive, IF got.ret < 0 THEN -1 ELSE 0)
       IN  /\ wt' = w2
           /\ jobs' = IF got.ret < 0 THEN jobs
                      ELSE jobs_remove_pgid(jobs, wt.pgid).jobs
           /\ hist' = IF got.ret < 0 THEN hist
                      ELSE [hist EXCEPT !.removed =
                              Append(@, [pgid |-> wt.pgid, by |-> "fg",
                                         left |-> GroupChildren(wt.pgid)])]
           /\ sh' = [sh EXCEPT !.pc = "fg_ret",
                               !.status = IF got.ret < 0 THEN @
                                          ELSE translate_status(@, got.status)]
           /\ tty' = tty_after(w2)
    /\ UNCHANGED <<sg, rd, cl, procs, out>>

\* lines 105-107: EINTR, the wait is tried again
FgInterrupted ==
    /\ sh.pc = "fg_wait"
    /\ wt.intr < MaxIntr
    /\ GroupChildren(wt.pgid) # {}
    /\ \A pid \in GroupChildren(wt.pgid) : Proc(pid).st # "zombie"
    /\ wt' = [wt EXCEPT !.intr = @ + 1]
    /\ UNCHANGED <<sg, rd, cl, sh, procs, jobs, out, tty, hist>>

\* wait_on_fg_pgid has returned: lines 620-654 of run_command_list, or the
\* caller of the job-control builtin
FgReturn ==
    /\ sh.pc = "fg_ret"
    /\ sh' = IF wt.caller = "list"
             THEN IF wt.retval < 0
                  THEN IF sh.status # 127
                       THEN [sh EXCEPT !.pc = "idle", !.rc = 0,
                                       !.exit = "wait_failed"]
                       ELSE [sh EXCEPT !.pc = "idle", !.rc = -1,
                                       !.status = 127, !.exit = "wait_failed"]
                  ELSE next_command(pipeline_reset(sh, is_pl))
             ELSE [sh EXCEPT !.pc = "idle"]
    /\ wt' = NoWt
    /\ UNCHANGED <<sg, rd, cl, procs, jobs, out, tty, hist>>

\* wait_on_fg_job (lines 151-157), called by the job-control builtin
\* between command lists
wait_on_fg_job(jid) ==
    /\ sh.pc = "idle"
    /\ jobs_get_pgid(jobs, jid) >= 0
    /\ sh' = [sh EXCEPT !.pc = "fg_enter"]
    /\ wt' = [NoWt EXCEPT !.pc = "enter", !.pgid = jobs_get_pgid(jobs, jid),
                          !.caller = "job"]
    /\ UNCHANGED <<sg, rd, cl, procs, jobs, out, tty, hist>>

\* wait_on_fg_pgid called with a group that may not be a job
wait_on_fg_pgid(pgid) ==
    /\ sh.pc = "idle"
    /\ jobs_get_jid(jobs, pgid) < 0
    /\ sh' = [sh EXCEPT !.pc = "fg_enter"]
    /\ wt' = [NoWt EXCEPT !.pc = "enter", !.pgid = pgid, !.caller = "pgid"]
    /\ UNCHANGED <<sg, rd, cl, procs, jobs, out, tty, hist>>

(***************************************************************************)
(* wait_on_bg_jobs (wait.c lines 159-206).                                 *)
(***************************************************************************)
\* lines 162-164
BgScanStart ==
    /\ sh.pc = "idle" /\ jobs # <<>>
    /\ sh' = [sh EXCEPT !.pc = "bg_scan", !.scan_i = 1,
                        !.scan_count = Len(jobs)]
    /\ UNCHANGED <<sg, rd, cl, procs, jobs, out, tty, wt, hist>>

\* line 172: waitpid(0, &status, 0) looks at the children in the shell's
\* own process group
BgWaitChildren == GroupChildren(ShellPid)

\* lines 172, 196-202: a terminated child of the shell's group is reaped
\* and its status recorded against the job being looked at
BgReap(pid) ==
    /\ sh.pc = "bg_scan" /\ sh.scan_i <= sh.scan_count
    /\ pid \in BgWaitChildren /\ Proc(pid).st = "zombie"
    /\ \E status \in ExitStatuses(ChildCmd(pid).is_builtin) :
       LET set == jobs_set_status(jobs, jobs[sh.scan_i].jid, status)
       IN  /\ procs' = SetProc(pid, "reaped", Proc(pid).pgid)
           /\ jobs' = set.jobs
           /\ sh' = IF set.ret < 0 THEN [sh EXCEPT !.pc = "idle"]
                    ELSE IF WIFSTOPPED(status)
                    THEN [sh EXCEPT !.scan_i = @ + 1]
                    ELSE sh
    /\ UNCHANGED <<sg, rd, cl, out, tty, wt, hist>>

\* lines 176-191: ECHILD; the job's saved status is reported and the job
\* removed
BgNoChildren ==
    /\ sh.pc = "bg_scan" /\ sh.scan_i <= sh.scan_count
    /\ BgWaitChildren = {}
    /\ LET job == jobs[sh.scan_i]
           got == jobs_get_status(jobs, job.jid)
           rem == jobs_remove_pgid(jobs, job.pgid)
       IN  /\ out' = IF WIFEXITED(got.status)
                     THEN Append(out, [kind |-> "done", jid |-> job.jid,
                                       pgid |-> job.pgid, cmd |-> 0])
                     ELSE IF WIFSIGNALED(got.status)
                     THEN Append(out, [kind |-> "terminated", jid |-> job.jid,
                                       pgid |-> job.pgid, cmd |-> 0])
                     ELSE out
           /\ jobs' = rem.jobs
           /\ hist' = [hist EXCEPT !.removed =
                          Append(@, [pgid |-> job.pgid, by |-> "bg",
                                     left |-> GroupChildren(job.pgid)])]
           /\ sh' = [sh EXCEPT !.scan_i = @ + 1,
                               !.scan_count = Len(rem.jobs)]
    /\ UNCHANGED <<sg, rd, cl, procs, tty, wt>>

\* line 164, 205: the loop ends and wait_on_bg_jobs returns 0
BgScanEnd ==
    /\ sh.pc = "bg_scan" /\ sh.scan_i > sh.scan_count
    /\ sh' = [sh EXCEPT !.pc = "idle"]
    /\ UNCHANGED <<sg, rd, cl, procs, jobs, out, tty, wt, hist>>

Next ==
    \/ PipeFails
    \/ ForkFails
    \/ ForkCommand
    \/ RunBuiltinInShell
    \/ ParentSetpgidFails
    \/ ParentAfterFork
    \/ \E pid \in Pids : ChildSetpgidFails(pid)
    \/ \E pid \in Pids : ChildRunsBuiltin(pid)
    \/ \E pid \in Pids : ChildAllocFails(pid)
    \/ \E pid \in Pids : ChildExecs(pid)
    \/ \E pid \in Pids : ChildFailsToExec(pid)
    \/ \E pid \in Pids : ChildExit(pid)
    \/ TerminalStop
    \/ FgEnterFails
    \/ FgHandOffFails
    \/ FgEnter
    \/ \E pid \in Pids : FgReap(pid)
    \/ FgNoChildren
    \/ FgInterrupted
    \/ FgReturn
    \/ \E jid \in 0 .. MaxCmds : wait_on_fg_job(jid)
    \/ \E pgid \in {-1, 0} : wait_on_fg_pgid(pgid)
    \/ BgScanStart
    \/ \E pid \in Pids : BgReap(pid)
    \/ BgNoChildren
    \/ BgScanEnd

Spec == Init /\ [][Next]_vars

(***************************************************************************)
(* Properties of the redirection engines (RedirSpec).                      *)
(***************************************************************************)
InProcessBuiltin == rd.kind = "builtin" /\ ~rd.forked

\* C5: after an in-process builtin invocation, whatever its redirections
\* and whether or not any of them failed, descriptors 0, 1 and 2 of the
\* shell refer to the same open files as before the invocation.
C5_StdDescriptorsKept ==
    (InProcessBuiltin /\ rd.pc = "done")
        => \A fd \in 0 .. 2 : rd.fds[fd] = rd.fds0[fd]

\* an in-process builtin ran with a redirection onto pseudo-descriptor 1
\* that opened a file and with a redirection that failed
C5_Witness ==
    /\ InProcessBuiltin /\ rd.pc = "done" /\ rd.result = "invoked"
    /\ rd.status = -1
    /\ rd.up >= 0
    /\ \E k \in 1 .. Len(rd.redirs) :
          rd.redirs[k].io_op = "OP_CLOBBER" /\ rd.redirs[k].io_number = 1

\* the operand is a non-negative integer within int range, in full
IsNonNegativeInt(w) ==
    /\ Len(w) >= 1
    /\ \A k \in 1 .. Len(w) : w[k] \in Digits
    /\ Magnitude(w, 1, Len(w), 0) <= INT_MAX

\* the plain file operator a duplicate-fd operator degrades to
PlainOp(r) ==
    [r EXCEPT !.io_op = IF @ = "OP_GREATAND" THEN "OP_GREAT" ELSE "OP_LESS"]

\* the last redirection applied was [n]>&word or [n]<&word with a word that
\* is neither - nor a non-negative integer within int range
DegradedOperandApplied ==
    /\ rd.k > 1
    /\ rd.redirs[rd.k - 1].io_op \in {"OP_GREATAND", "OP_LESSAND"}
    /\ rd.redirs[rd.k - 1].filename # Dash
    /\ ~IsNonNegativeInt(rd.redirs[rd.k - 1].filename)

\* C9: a duplicate-fd redirection whose operand is not - and is not, in
\* full, a non-negative integer within int range has in both engines the
\* effect of the plain > or < redirection of the same operand.
C9_BadOperandOpensFile ==
    DegradedOperandApplied =>
        IF rd.kind = "builtin"
        THEN rd.post = builtin_redirect(rd.prev, PlainOp(rd.redirs[rd.k - 1]),
                                        rd.malloc_ok)
        ELSE LET n == io_redirect([fds |-> rd.prev.fds, fs |-> rd.prev.fs],
                                  PlainOp(rd.redirs[rd.k - 1]))
             IN  /\ rd.post.fds = n.fds
                 /\ rd.post.fs = n.fs
                 /\ rd.post.err = n.err


(***************************************************************************)
(* Properties of run_command_list and the waits (Spec).                    *)
(***************************************************************************)
\* the stages of the pipeline that command k closes
Stages(k) == PipelineStart(cl, k) .. k
ClosesPipeline(k) == cl[k].ctrl_op # "|"
Spawned(k) == hist.cmds[k].how = "spawned"
AllSpawned(k) == \A j \in Stages(k) : Spawned(j)
StagePids(k) == {hist.cmds[j].pid : j \in Stages(k)}
FirstPid(k) == hist.cmds[PipelineStart(cl, k)].pid

\* C1: once the last stage of a pipeline of N stages has been spawned, the
\* process group named by the pid of its first-spawned process has exactly
\* the N processes of the pipeline as members, and no process of another
\* pipeline.
C1_PipelineOwnsItsGroup ==
    \A k \in 1 .. Len(cl) :
        (ClosesPipeline(k) /\ AllSpawned(k))
            => GroupMembers(FirstPid(k)) = StagePids(k)

IsPipeFd(t, fd) == IsPipe(t[fd])
OpenPipeFds(t) == {fd \in Fds : IsPipeFd(t, fd)}

\* C2: when run_command_list has processed the last command of the list,
\* the shell holds no open descriptor of a pipe it created.
C2_NoPipeLeft ==
    sh.exit = "end" => OpenPipeFds(sh.fds) = {}

\* a list with a pipe has run to its end, each command in a child
C2_Witness ==
    /\ sh.exit = "end" /\ sh.npipes >= 1
    /\ OpenPipeFds(sh.fds) = {}
    /\ \A k \in 1 .. Len(cl) : Spawned(k)

\* the shell is about to run a builtin that is the sole stage of a ;
\* command
SoleFgBuiltin ==
    /\ sh.pc = "loop" /\ Cmd.is_builtin /\ is_fg
    /\ PipelineStart(cl, sh.i) = sh.i

\* C3: a builtin that is the sole stage of a ; command is run by the shell
\* itself: the step forks no process, registers no job, starts no wait, and
\* goes on with the next command of the list.
C3_SoleBuiltinInShell ==
    [][(SoleFgBuiltin /\ sh' # sh)
          => /\ procs' = procs /\ jobs' = jobs /\ wt' = wt /\ out' = out
             /\ hist'.cmds[sh.i].how = "inproc"
             /\ sh'.i = sh.i + 1
             /\ sh'.pc = IF sh.i < Len(cl) THEN "loop" ELSE "idle"
             /\ sh'.rc = 0]_vars

\* a sole ; builtin has run in the shell and the next command was then
\* forked
C3_Witness ==
    \E k \in 1 .. Len(cl) - 1 :
        /\ cl[k].is_builtin /\ cl[k].ctrl_op = ";"
        /\ PipelineStart(cl, k) = k
        /\ hist.cmds[k].how = "inproc"
        /\ Spawned(k + 1) /\ hist.cmds[k + 1].pid = ShellPid + 1

\* command k was taken up by run_command_list and run
Processed(k) == hist.cmds[k].how # "pending"

\* C4: every command that is external, or ends with & or |, or is the final
\* stage of a pipeline, is run in a forked child; only a builtin that is
\* the sole stage of a ; command runs without a fork.
C4_AllButSoleFgBuiltinFork ==
    \A k \in 1 .. Len(cl) :
        Processed(k)
            => (hist.cmds[k].how = "inproc"
                  <=> /\ cl[k].is_builtin /\ cl[k].ctrl_op = ";"
                      /\ PipelineStart(cl, k) = k)


\* wait_on_fg_pgid, called by run_command_list for the pipeline that the
\* command at sh.i closes, has returned
FgListWaitReturned == sh.pc = "fg_ret" /\ wt.caller = "list"

\* C6: the wait for a foreground pipeline of N stages, no process stopped
\* and no wait interrupted, returns after all N processes have exited, and
\* has seen N reaps and then one ECHILD.
C6_ReapsEachStageOnce ==
    (FgListWaitReturned /\ wt.retval = 0 /\ wt.intr = 0)
        => /\ wt.reaps = Cardinality(Stages(sh.i))
           /\ wt.echild = 1
           /\ \A pid \in StagePids(sh.i) : Proc(pid).st = "reaped"

\* C7: wait_on_bg_jobs reports and removes a job only when no process of
\* the job's group is left running or unreaped.
C7_RemovedOnlyWhenGroupGone ==
    \A n \in 1 .. Len(hist.removed) :
        hist.removed[n].by = "bg" => hist.removed[n].left = {}

\* the start notices printed for command k
StartNotices(k) ==
    {n \in 1 .. Len(out) : out[n].kind = "start" /\ out[n].cmd = k}

\* C8: a pipeline closed by & is not waited for and gets exactly one start
\* notice, with the job id and the group id registered for the pipeline's
\* first process; a ; or | command gets none.
C8_OneStartNoticePerBgPipeline ==
    \A k \in 1 .. Len(cl) :
        /\ (cl[k].ctrl_op = "&" /\ Spawned(k))
              => /\ ~hist.cmds[k].waited
                 /\ Cardinality(StartNotices(k)) = 1
                 /\ \A n \in StartNotices(k) :
                       /\ out[n].pgid = FirstPid(k)
                       /\ out[n].jid = hist.cmds[PipelineStart(cl, k)].jid
                       /\ jobs_get_jid(jobs, FirstPid(k)) = out[n].jid
                          \/ \E m \in 1 .. Len(hist.removed) :
                                hist.removed[m].pgid = FirstPid(k)
        /\ cl[k].ctrl_op # "&" => StartNotices(k) = {}

\* wait_on_fg_pgid has returned to its caller in an interactive shell
FgReturnedInteractive == sh.pc = "fg_ret" /\ sh.interactive

\* C10 as stated: in an interactive shell every return of wait_on_fg_pgid
\* comes after the step that gives the terminal back to the shell's group.
C10_RestoreOnEveryExit ==
    FgReturnedInteractive => wt.restored

\* C10, amended: every return of wait_on_fg_pgid that comes after the
\* terminal was handed to the job's group comes after the step that gives
\* it back; the returns before the hand-off come without that step, and at
\* each return the terminal is the shell's.
C10_RestoreAfterHandOff ==
    FgReturnedInteractive
        => /\ wt.restored <=> wt.handed
           /\ tty = ShellPid

\* an interactive wait that was given the terminal, reaped the job and
\* saw ECHILD
C10_Witness ==
    /\ FgReturnedInteractive /\ wt.handed /\ wt.restored
    /\ wt.reaps >= 1 /\ wt.echild = 1 /\ wt.retval = 0

\* the step of the foreground wait loop that sees ECHILD
FgSeesNoChildren == sh.pc = "fg_wait" /\ wt'.echild = wt.echild + 1

\* C11: on "no more children" wait_on_fg_pgid sets the shell's exit status
\* from the job's last recorded wait status (the exit code of a normal
\* exit, 128 + the signal number of a termination by signal), removes the
\* group's entry from the job table and returns success.
C11_NoChildrenEndsTheWait ==
    [][FgSeesNoChildren
          => LET last == jobs_get_status(jobs, wt.jid).status
             IN  /\ jobs_get_jid(jobs, wt.pgid) = wt.jid
                 /\ WIFEXITED(last) => sh'.status = last.val
                 /\ WIFSIGNALED(last) => sh'.status = 128 + last.val
                 /\ jobs_get_jid(jobs', wt.pgid) = -1
                 /\ Len(jobs') = Len(jobs) - 1
                 /\ wt'.pc = "return" /\ wt'.retval = 0]_vars

\* a foreground job whose last process was killed by signal 15 has been
\* waited for to the end
C11_Witness ==
    /\ sh.pc = "fg_ret" /\ wt.echild = 1 /\ wt.reaps >= 1 /\ wt.retval = 0
    /\ sh.status = 128 + 15
    /\ jobs_get_jid(jobs, wt.pgid) = -1

\* the shell is suspended in the waitpid of wait_on_bg_jobs: a child it
\* looks at is there and none has terminated
BgWaitSuspended ==
    /\ sh.pc = "bg_scan" /\ sh.scan_i <= sh.scan_count
    /\ BgWaitChildren # {}
    /\ \A pid \in BgWaitChildren : Proc(pid).st # "zombie"

\* C12: wait_on_bg_jobs never blocks: whatever the job table and the
\* children, running ones included, the shell is never suspended in its
\* wait.
C12_BgScanNeverSuspends == ~BgWaitSuspended

\* C13: a child forked by run_command_list never returns from it: on every
\* path, a failed process-group assignment and a failed allocation
\* included, it exec's the program or terminates itself.
C13_ChildNeverReturns ==
    \A pid \in Pids : Proc(pid).st # "returned"

\* a redirection of the command has failed
RedirectionFailed == rd.status = -1

\* C14: when a redirection of a command fails, the command body is not
\* run: an external program is not exec'ed and its child exits non-zero, a
\* builtin function is not invoked.
C14_FailedRedirectionStopsCommand ==
    RedirectionFailed
        => /\ rd.result \notin {"invoked", "exec"}
           /\ (rd.kind = "external" /\ rd.pc = "done")
                 => rd.result \in {"exit1", "exit127"}

\* run_command_list was left because pipe, fork, setpgid or an allocation
\* failed in the shell while it processed command sh.i
ListAborted == sh.exit \in {"pipe_failed", "err"}

\* C15: when pipe, fork or the process-group assignment fails in the
\* parent at command i, run_command_list returns -1 at once, and no command
\* after i is spawned or executed.
C15_FailureAbortsTheList ==
    ListAborted
        => /\ sh.rc = -1 /\ sh.pc # "loop" /\ sh.i <= Len(cl)
           /\ \A k \in (sh.i + 1) .. Len(cl) : hist.cmds[k].how = "pending"
           /\ \A pid \in Pids : Proc(pid).cmd <= sh.i

\* the list was left at its second command, after the first was spawned
\* and with a third never taken up
C15_Witness ==
    /\ ListAborted /\ sh.i = 2 /\ Len(cl) = 3
    /\ Spawned(1) /\ hist.cmds[3].how = "pending"

\* run_command_list has finished with command k, which closes a pipeline,
\* and is at the next command or at its normal return
FinishedPipelineAt(k) ==
    /\ k >= 1 /\ sh.i = k + 1 /\ ClosesPipeline(k)
    /\ sh.pc = "loop" \/ sh.exit = "end"

\* C16: after run_command_list has finished with a command whose control
\* operator is not |, forked or run in the shell, the pipeline state's
\* group id is 0 and its job id is unset.
C16_PipelineStateReset ==
    \A k \in 1 .. Len(cl) :
        FinishedPipelineAt(k) => sh.pgid = 0 /\ sh.jid = -1

\* the forked child is at execvp (line 599) of an external program
AtExec == rd.kind = "external" /\ rd.result = "exec"

\* C17: when a forked pipeline stage exec's its program, the only pipe
\* descriptors open in it are the upstream read end on descriptor 0 and the
\* downstream write end on descriptor 1 (stated for a stage without
\* redirections of its own, which could copy a pipe end on request).
C17_OnlyConnectedPipeEnds ==
    (AtExec /\ rd.redirs = <<>>)
        => \A fd \in OpenPipeFds(rd.fds) :
              \/ fd = 0 /\ rd.up >= 0 /\ rd.fds[0] = rd.fds0[rd.up]
              \/ fd = 1 /\ rd.down >= 0 /\ rd.fds[1] = rd.fds0[rd.down]

\* the redirection last applied to the builtin's table was n>&- or n<&-,
\* and it did not fail
CloseApplied ==
    /\ rd.kind = "builtin" /\ rd.k > 1 /\ ~rd.post.err
    /\ rd.redirs[rd.k - 1].io_op \in {"OP_GREATAND", "OP_LESSAND"}
    /\ rd.redirs[rd.k - 1].filename = Dash

\* C18: n>&- or n<&- leaves in the virtual redirection table a record for
\* pseudo-descriptor n whose real descriptor is -1, whether n had a record
\* before or not.
C18_ClosedRecordKept ==
    CloseApplied
        => \E j \in 1 .. Len(rd.post.list) :
              /\ rd.post.list[j].pseudofd = rd.redirs[rd.k - 1].io_number
              /\ rd.post.list[j].realfd = -1

\* the redirection last applied to the builtin's table named a
\* pseudo-descriptor that had a record already
RedirectedExistingRec ==
    /\ rd.kind = "builtin" /\ rd.k > 1
    /\ FindRec(rd.prev.list, rd.redirs[rd.k - 1].io_number) # 0

\* C19: after seeding and after every redirection of do_builtin_io_redirects
\* the list holds at most one record for each pseudo-descriptor number, and
\* a redirection to a pseudo-descriptor that has a record adds no record.
C19_OneRecordPerPseudoFd ==
    /\ \A i, j \in 1 .. Len(rd.list) :
          (i # j /\ rd.list[i].pseudofd >= 0)
              => rd.list[i].pseudofd # rd.list[j].pseudofd
    /\ RedirectedExistingRec => Len(rd.post.list) = Len(rd.prev.list)

C19_Witness ==
    /\ RedirectedExistingRec /\ ~rd.post.err
    /\ rd.up >= 0 /\ rd.down >= 0 /\ rd.k = 3 /\ Len(rd.list) = 2
    /\ rd.redirs[1].io_number = 1 /\ rd.redirs[2].io_number = 1
    /\ rd.redirs[2].filename # Dash

\* the in-process builtin was called and its redirection list cleaned up
InProcessBuiltinReturned ==
    InProcessBuiltin /\ rd.pc = "done" /\ rd.result = "invoked"

\* C20: after an in-process builtin invocation returns, whatever its
\* redirections and whether they succeeded or failed, the shell's open
\* descriptors are those it had before the command, minus the pipe ends
\* handed to the builtin.
C20_NoDescriptorLeftOpen ==
    InProcessBuiltinReturned
        => \A fd \in Fds :
              rd.fds[fd] = IF fd \in {rd.up, rd.down} THEN Closed
                           ELSE rd.fds0[fd]

(***************************************************************************)
(* The shell under its scheduling: a call in progress goes on whenever it  *)
(* can (fork, the parent's side, the foreground wait, a background scan),  *)
(* and an idle shell with jobs starts a background scan before its next    *)
(* prompt.  Nothing is assumed of the children or of the user.             *)
(***************************************************************************)
ShellStep ==
    \/ PipeFails
    \/ ForkFails
    \/ ForkCommand
    \/ RunBuiltinInShell
    \/ ParentSetpgidFails
    \/ ParentAfterFork
    \/ FgEnterFails
    \/ FgHandOffFails
    \/ FgEnter
    \/ \E pid \in Pids : FgReap(pid)
    \/ FgNoChildren
    \/ FgReturn
    \/ BgScanStart
    \/ \E pid \in Pids : BgReap(pid)
    \/ BgNoChildren
    \/ BgScanEnd

FairSpec == Spec /\ WF_vars(ShellStep)

\* the foreground wait is on a group with a stopped member
FgGroupStopped ==
    /\ sh.pc = "fg_wait"
    /\ \E pid \in GroupChildren(wt.pgid) : Proc(pid).st = "stopped"

\* the stop of the job waited on has been noticed and the wait has ended
\* with the job in the table
FgStopNoticed ==
    /\ sh.pc = "fg_ret"
    /\ jobs_get_jid(jobs, wt.pgid) = wt.jid
    /\ \E n \in 1 .. Len(out) :
          out[n].kind = "stopped" /\ out[n].jid = wt.jid

\* C21: a job that stops is not removed from the job table while its
\* processes have not exited: when a process of the foreground group stops,
\* wait_on_fg_pgid prints the stop notice and stops waiting with the job
\* still in the table.
C21_StopEndsTheWait == FgGroupStopped ~> FgStopNoticed

\* run_command_list registered a job with the pid of command k's child
Registered(k) == Spawned(k) /\ hist.cmds[k].jid >= 0

\* command k is the first command of its pipeline that was forked
FirstForked(k) ==
    Spawned(k) /\ \A j \in Stages(k) \ {k} : ~Spawned(j)

\* C22: for every pipeline that forks a process, the job table's register
\* operation is called once, by the parent, with the pid of the pipeline's
\* first child, which leads its own group then; it is called for no other
\* child and skipped for no pipeline of the list.
C22_RegisteredOncePerPipeline ==
    \A k \in 1 .. Len(cl) :
        Spawned(k)
            => /\ Registered(k) <=> FirstForked(k)
               /\ Registered(k) => Proc(hist.cmds[k].pid).pgid = hist.cmds[k].pid

\* the jobs a scan at index i of a table js of count entries has still to
\* examine (lines 164-166: jobs[i] .. jobs[job_count - 1])
ScanAhead(js, i, count) ==
    {js[m].jid : m \in {n \in i .. count : n <= Len(js)}}

\* a step of the background scan removes a job from the table
ScanRemovesJob == sh.pc = "bg_scan" /\ Len(jobs') < Len(jobs)

\* C23: one call of wait_on_bg_jobs examines every job of the table, also
\* when jobs are removed during the scan: when the job examined is removed,
\* every job that was still to be examined remains so, and the scan reads
\* no entry beyond the end of the table.
C23_ScanSkipsNoJob ==
    /\ []((sh.pc = "bg_scan" /\ sh.scan_i <= sh.scan_count)
             => sh.scan_i <= Len(jobs))
    /\ [][ScanRemovesJob
             => ScanAhead(jobs, sh.scan_i + 1, sh.scan_count)
                    \subseteq ScanAhead(jobs', sh'.scan_i, sh'.scan_count)]_vars

(***************************************************************************)
(* SigSpec: signal.c and the exec path of an external-command child        *)
(* (runner.c lines 593-599).                                               *)
(*   sg.orig   the dispositions the shell was started with (history)       *)
(*   sg.disp   the dispositions of the shell                               *)
(*   sg.old    old_sigtstp, old_sigint, old_sigttou                        *)
(*   sg.child  a forked child: its position, its copy of the dispositions  *)
(*             and of the saved ones, and the dispositions it was forked   *)
(*             with (history)                                              *)
(***************************************************************************)
Signals == {"SIGTSTP", "SIGINT", "SIGTTOU"}

SIG_DFL == "SIG_DFL"
SIG_IGN == "SIG_IGN"
interrupting_signal_handler == "interrupting_signal_handler"

\* a program is started with each signal either default or ignored
StartDispositions == [Signals -> {SIG_DFL, SIG_IGN}]

\* sigaction(sig, &act, &old): S is [disp, old]
sigaction_save(S, sig, act) ==
    [disp |-> [S.disp EXCEPT ![sig] = act],
     old |-> [S.old EXCEPT ![sig] = S.disp[sig]]]

\* sigaction(sig, &act, NULL)
sigaction_set(disp, sig, act) == [disp EXCEPT ![sig] = act]

\* signal.c lines 34-53
signal_init(S) ==
    sigaction_save(
        sigaction_save(
            sigaction_save(S, "SIGTSTP", SIG_IGN),
            "SIGTTOU", SIG_IGN),
        "SIGINT", SIG_IGN)

\* signal.c lines 62-72
signal_enable_interrupt(disp, sig) ==
    sigaction_set(disp, sig, interrupting_signal_handler)

\* signal.c lines 80-90
signal_ignore(disp, sig) == sigaction_set(disp, sig, SIG_IGN)

\* signal.c lines 96-115 with SIGINT left as it is
signal_restore_without_sigint(S) ==
    sigaction_set(sigaction_set(S.disp, "SIGTSTP", S.old["SIGTSTP"]),
                  "SIGTTOU", S.old["SIGTTOU"])

\* signal.c lines 96-115
signal_restore(S) ==
    sigaction_set(
        sigaction_set(
            sigaction_set(S.disp, "SIGTSTP", S.old["SIGTSTP"]),
            "SIGTTOU", S.old["SIGTTOU"]),
        "SIGINT", S.old["SIGINT"])

NoChild == [pc |-> "none", disp |-> [s \in Signals |-> SIG_DFL],
            old |-> [s \in Signals |-> SIG_DFL],
            at_fork |-> [s \in Signals |-> SIG_DFL]]

\* the shell is started; the static old_* are zero, which is SIG_DFL
SigInit ==
    /\ \E orig \in StartDispositions :
          sg = [pc |-> "main", orig |-> orig, disp |-> orig,
                old |-> [s \in Signals |-> SIG_DFL], child |-> NoChild]
    /\ rd = NoRd
    /\ cl = <<>>
    /\ sh = [pc |-> "off"]
    /\ procs = <<>>
    /\ jobs = <<>>
    /\ out = <<>>
    /\ tty = 0
    /\ wt = [pc |-> "off"]
    /\ hist = <<>>

sgother == <<rd, cl, sh, procs, jobs, out, tty, wt, hist>>

\* signal_init is called on entry to main
ShellSignalInit ==
    /\ sg.pc = "main"
    /\ LET S == signal_init([disp |-> sg.disp, old |-> sg.old])
       IN  sg' = [sg EXCEPT !.pc = "run", !.disp = S.disp, !.old = S.old]
    /\ UNCHANGED sgother

\* the shell calls signal_ignore(sig)
ShellSignalIgnore(sig) ==
    /\ sg.pc = "run"
    /\ sg' = [sg EXCEPT !.disp = signal_ignore(sg.disp, sig)]
    /\ UNCHANGED sgother

\* the shell calls signal_enable_interrupt(sig)
ShellSignalEnableInterrupt(sig) ==
    /\ sg.pc = "run"
    /\ sg' = [sg EXCEPT !.disp = signal_enable_interrupt(sg.disp, sig)]
    /\ UNCHANGED sgother

\* runner.c line 473: the child starts with a copy of the shell's
\* dispositions and statics
SigFork ==
    /\ sg.pc = "run" /\ sg.child.pc = "none"
    /\ sg' = [sg EXCEPT !.child = [pc |-> "forked", disp |-> sg.disp,
                                   old |-> sg.old, at_fork |-> sg.disp]]
    /\ UNCHANGED sgother

\* runner.c lines 593-596 in the child
ChildSignalRestore ==
    /\ sg.child.pc = "forked"
    /\ sg' = [sg EXCEPT !.child.pc = "restored",
                        !.child.disp = signal_restore([disp |-> sg.child.disp,
                                                       old |-> sg.child.old])]
    /\ UNCHANGED sgother

\* runner.c line 599 in the child
ChildExecvp ==
    /\ sg.child.pc = "restored"
    /\ sg' = [sg EXCEPT !.child.pc = "exec"]
    /\ UNCHANGED sgother

SigNext ==
    \/ ShellSignalInit
    \/ \E sig \in Signals : ShellSignalIgnore(sig)
    \/ \E sig \in Signals : ShellSignalEnableInterrupt(sig)
    \/ SigFork
    \/ ChildSignalRestore
    \/ ChildExecvp

SigSpec == SigInit /\ [][SigNext]_vars

\* an external-command child is at its exec
ChildAtExec == sg.child.pc = "exec"

\* C24: in an external-command child, at the exec the dispositions of
\* SIGTSTP, SIGINT and SIGTTOU are those the shell was started with,
\* whatever signal_ignore and signal_enable_interrupt calls the shell made
\* after signal_init.
C24_OriginalDispositionsAtExec ==
    ChildAtExec => \A sig \in Signals : sg.child.disp[sig] = sg.orig[sig]

\* the shell was started with SIGINT ignored and SIGTSTP default, and the
\* child was forked while SIGINT had the interrupting handler
C24_Witness ==
    /\ ChildAtExec
    /\ sg.orig["SIGINT"] = SIG_IGN /\ sg.orig["SIGTSTP"] = SIG_DFL
    /\ sg.child.at_fork["SIGINT"] = interrupting_signal_handler
    /\ sg.child.at_fork["SIGTSTP"] = SIG_IGN
    /\ sg.child.disp = sg.orig

\* run_command_list has returned because the foreground wait failed
FgWaitFailedReturn == sh.pc = "idle" /\ sh.exit = "wait_failed"

\* C25: when wait_on_fg_pgid fails for a foreground command, params.status
\* is non-zero when run_command_list returns, whatever it was before.
C25_FailedWaitSetsStatus == FgWaitFailedReturn => sh.status # 0

\* the wait for the foreground pipeline closed by the command at sh.i, of
\* two stages or more, has returned with every stage reaped by it
FgPipelineReaped ==
    /\ FgListWaitReturned /\ wt.retval = 0
    /\ Cardinality(Stages(sh.i)) >= 2
    /\ AllSpawned(sh.i)
    /\ \A k \in Stages(sh.i) : hist.cmds[k].status # NoStatus

\* C26: for a foreground pipeline of two stages or more that all exit, the
\* shell status set by wait_on_fg_pgid is the translated exit status of the
\* pipeline's last stage, in whatever order the stages exit and are reaped.
C26_StatusOfLastStage ==
    FgPipelineReaped
        => sh.status = translate_status(sh.status, hist.cmds[sh.i].status)

\* the n-th child has terminated and no wait has collected it; a wait has
\* collected it
Terminated(n) == n <= Len(procs) /\ procs[n].st = "zombie"
Reaped(n) == n <= Len(procs) /\ procs[n].st = "reaped"

\* the shell keeps coming back to its prompt, where it scans the job table
ShellKeepsScanning == []<>(sh.pc = "idle")

\* C27: every child spawned by run_command_list that terminates is
\* eventually reaped, by the foreground wait on its group or by a later
\* wait_on_bg_jobs scan, provided the shell keeps running and scanning.
C27_TerminatedChildReaped ==
    \A n \in 1 .. MaxProcs :
        ShellKeepsScanning => (Terminated(n) ~> Reaped(n))

=============================================================================
